---------------------------- MODULE Spec2Model ----------------------------
(***************************************************************************)
(* Lead intake-and-forwarding pipeline: the Lead collection (unique        *)
(* leadid), the controller handlers createLead, retryLeadForwarding,       *)
(* bulkForwardLeads, updateLeadStatus, deleteLead and getLeadById, and     *)
(* the forwarding dispatcher processAndForwardLead.                        *)
(*                                                                         *)
(* Every handler is an async function: it runs from one await to the next  *)
(* without interruption, and between two awaits of one request the store   *)
(* may serve any other request.  One action of the model is one such       *)
(* segment, placed at the moment its store operation (or outbound call)    *)
(* takes effect.  When a handler answers, its locals go out of scope and   *)
(* `sent` shows the response together with what the request had done; the  *)
(* next step of any request clears `sent`.                                 *)
(***************************************************************************)
EXTENDS Integers, Sequences, FiniteSets, TLC

(* ------------------------------ bounds --------------------------------- *)

\* documents of one leadid that exist at one time: the stored one and the
\* deleted ones a running request still holds in memory
MaxDocs == 2

\* longest list of known identifiers in the leadIds of a bulk request
MaxBulkLen == 2
MaxCatLen == 5
MaxStrLen == 4

\* requests served at the same time, and the lead identifiers clients send
Reqs == {"r1", "r2"}
LeadIds == {"L1", "L2"}

\* "Maximum 100 leads can be processed at once"
BulkMax == 100

(* ------------------------------- state --------------------------------- *)

VARIABLES
    store,      \* the Lead collection: a set of documents
    pc,         \* per request: the await its handler is suspended at
    op,         \* per request: the handler serving it
    lead,       \* per request: req.params.leadid / leadData.leadid
    doc,        \* per request: the in-memory Mongoose document `lead`
    fwd,        \* per request: apiForwardingResult
    saves,      \* per request: the outcome of each lead.save() after the insert
    calls,      \* per request: outbound POSTs it has issued
    units,      \* per bulk request: one unit of work per resolved lead
    results,    \* per bulk request: the `results` accumulator
    sent,       \* the response sent by the last step, if it sent one
    arg,        \* the argument of a helper function under study
    out         \* what the helper function returned for it

vars == <<store, pc, op, lead, doc, fwd, saves, calls, units, results, sent,
          arg, out>>

Statuses == {"pending", "processed", "failed"}

NoId == <<"", 0>>
NoDoc == [id |-> NoId, leadid |-> "", status |-> ""]
NoFwd == [success |-> FALSE, error |-> ""]
NoResp == [code |-> 0]
NoInput == [isArray |-> FALSE, ids |-> <<>>, pad |-> 0]
NoResults == [total |-> 0, successful |-> 0, failed |-> 0, notFound |-> 0]
NoUnits == <<>>
NoArg == [fn |-> "none"]
NoOut == [fn |-> "none"]
NoSent ==
    [op |-> "none", lead |-> "", doc |-> NoDoc, fwd |-> NoFwd,
     saves |-> <<>>, calls |-> 0, input |-> NoInput, response |-> NoResp]

Range(s) == {s[i] : i \in DOMAIN s}

(* ------------------------------ the store ------------------------------ *)

\* Lead.find({leadid: l}): the documents carrying leadid l
Docs(l) == {d \in store : d.leadid = l}

\* Lead.findOne({leadid: l}): the document, or null; for comparison, a
\* lookup that never finds anything
findOneMisses(l) == NoDoc
findOne(l) == IF Docs(l) = {} THEN NoDoc ELSE CHOOSE d \in Docs(l) : TRUE

\* Lead.find({leadid: {$in: ids}})
find(ids) == {d \in store : d.leadid \in Range(ids)}

\* the document with this _id is (still) stored
Stored(id) == \E d \in store : d.id = id

\* the stored document with this _id
ById(id) == CHOOSE d \in store : d.id = id

\* the unique index on leadid refuses an insert (E11000); for comparison,
\* a collection without the index never refuses
DuplicateKeyNoIndex(l) == FALSE
DuplicateKey(l) == Docs(l) # {}

\* new Lead(leadData): status takes its default.  Of a document the model
\* keeps _id, leadid and status; the other fields are set from the request
\* (processingTime and updatedAt along with every status write) and no
\* handler reads them.
NewLead(id, l) == [id |-> id, leadid |-> l, status |-> "pending"]

\* lead.save() of a loaded document: updateOne({_id}, {$set: modified
\* paths}).  `status` is among the modified paths only when the assignment
\* changed the in-memory value.  For comparison, a save that leaves the
\* stored status alone.
UpdateOneDropsStatus(id, old, new) == store
UpdateOne(id, old, new) ==
    {IF d.id = id /\ old # new THEN [d EXCEPT !.status = new] ELSE d :
        d \in store}

(* ------------------------- forwarding dispatcher ------------------------ *)

\* what the external endpoint does with one POST: a 2xx answer, a non-2xx
\* answer, or no usable answer (network error, timeout, unparsable body)
ExtOutcomes == {"2xx", "non2xx", "neterr"}

\* sendLeadToApi: returns on a 2xx response, throws otherwise
sendLeadToApi(ext) ==
    CASE ext = "2xx"    -> [threw |-> FALSE, error |-> ""]
      [] ext = "non2xx" -> [threw |-> TRUE,
                            error |-> "API request failed: status statusText"]
      [] ext = "neterr" -> [threw |-> TRUE, error |-> "fetch failed"]

\* processAndForwardLead: never throws, turns every exception into a
\* {success: false} result
processAndForwardLead(ext) ==
    LET r == sendLeadToApi(ext) IN
    IF r.threw
        THEN [success |-> FALSE, error |-> r.error]
        ELSE [success |-> TRUE, error |-> ""]

\* the status a handler assigns for a forwarding result; for comparison,
\* an assignment that ignores the result and one that puts a failed lead
\* back to pending
OutcomeStatusAlwaysProcessed(result) == "processed"
OutcomeStatusPendingOnFailure(result) ==
    IF result.success THEN "processed" ELSE "pending"
OutcomeStatus(result) == IF result.success THEN "processed" ELSE "failed"

(* ------------------------------- Init ----------------------------------- *)

\* the pipeline at rest: an empty collection and no request in progress
Idle ==
    /\ store = {}
    /\ pc = [r \in Reqs |-> "idle"]
    /\ op = [r \in Reqs |-> "none"]
    /\ lead = [r \in Reqs |-> ""]
    /\ doc = [r \in Reqs |-> NoDoc]
    /\ fwd = [r \in Reqs |-> NoFwd]
    /\ saves = [r \in Reqs |-> <<>>]
    /\ calls = [r \in Reqs |-> 0]
    /\ units = [r \in Reqs |-> NoUnits]
    /\ results = [r \in Reqs |-> NoResults]
    /\ sent = NoSent

Init ==
    /\ Idle
    /\ arg = NoArg
    /\ out = NoOut

pipeline == <<store, pc, op, lead, doc, fwd, saves, calls, units, results, sent>>

\* the _id of a new document of leadid l: <<l, n>> for the least n that no
\* stored document has and no running request still refers to (the driver
\* never repeats an _id; which unused one it hands out makes no difference)
DocIds == LeadIds \X (1..MaxDocs)
InUse ==
    {d.id : d \in store} \cup {doc[r].id : r \in Reqs}
        \cup UNION {DOMAIN units[r] : r \in Reqs}
FreeIds(l) == {i \in DocIds : i[1] = l /\ i \notin InUse}
NewId(l) == CHOOSE i \in FreeIds(l) : \A j \in FreeIds(l) : i[2] <= j[2]

\* a unit of a bulk request that has not settled yet
UnitRunning(u) == u.st \in {"found", "forward"}

\* a connection is free for a new request once the last one is answered and
\* none of its bulk units is still running
Free(r) == pc[r] = "idle" /\ units[r] = NoUnits

\* a handler suspends at an await: nothing is sent
Suspend(r, at) ==
    /\ pc' = [pc EXCEPT ![r] = at]
    /\ sent' = NoSent
Await(r, at) ==
    /\ Suspend(r, at)
    /\ UNCHANGED <<arg, out>>

\* what a request has done when it answers
Done(r, o, l, response) ==
    [op |-> o, lead |-> l, doc |-> doc[r], fwd |-> fwd[r],
     saves |-> saves[r], calls |-> calls[r], input |-> NoInput,
     response |-> response]

\* res.status(code).json(...) / .send(...): the handler returns and its
\* locals go out of scope
Reply(r, done) ==
    /\ sent' = done
    /\ pc' = [pc EXCEPT ![r] = "idle"]
    /\ op' = [op EXCEPT ![r] = "none"]
    /\ lead' = [lead EXCEPT ![r] = ""]
    /\ doc' = [doc EXCEPT ![r] = NoDoc]
    /\ fwd' = [fwd EXCEPT ![r] = NoFwd]
    /\ saves' = [saves EXCEPT ![r] = <<>>]
    /\ calls' = [calls EXCEPT ![r] = 0]
    /\ results' = [results EXCEPT ![r] = NoResults]
Answer(r, done) ==
    /\ Reply(r, done)
    /\ UNCHANGED <<arg, out>>

InternalError ==
    [code |-> 500, success |-> FALSE, message |-> "Internal server error"]
NotFound ==
    [code |-> 404, success |-> FALSE, message |-> "Lead not found"]

(* ------------------------------ createLead ------------------------------ *)

\* the 409 of the pre-insert lookup, and the 409 of the outer catch
DuplicateFound(l) ==
    [code |-> 409, success |-> FALSE, message |-> "Lead already exists",
     leadid |-> l]
DuplicateKeyCaught(l) ==
    [code |-> 409, success |-> FALSE, message |-> "Lead already exists"]
Received == [code |-> 200, body |-> "RECEIVED"]

\* what createLead answers once the inner try/catch is over, given the
\* forwarding result: res.status(200).send("RECEIVED"), whatever it was;
\* for comparison, a handler that reports a failed forwarding as an error
createLead_responseReportsFailure(result) ==
    IF result.success THEN Received ELSE InternalError
createLead_response(result) == Received

\* await Lead.findOne({leadid}).lean(); 409 when it exists
createLead_begin(r, l) ==
    /\ Free(r)
    /\ IF findOne(l) # NoDoc
          THEN /\ Reply(r, Done(r, "create", l, DuplicateFound(l)))
          ELSE /\ Suspend(r, "c_insert")
               /\ op' = [op EXCEPT ![r] = "create"]
               /\ lead' = [lead EXCEPT ![r] = l]
               /\ UNCHANGED <<doc, fwd, saves, calls, results>>
    /\ UNCHANGED <<store, units>>
createLead_findOne(r, l) ==
    /\ createLead_begin(r, l)
    /\ UNCHANGED <<arg, out>>

\* const lead = new Lead(leadData); await lead.save();
\* a duplicate-key failure goes to the outer catch
createLead_insert(r) ==
    /\ pc[r] = "c_insert"
    /\ IF DuplicateKey(lead[r])
          THEN /\ Answer(r, Done(r, "create", lead[r],
                                 DuplicateKeyCaught(lead[r])))
               /\ UNCHANGED store
          ELSE /\ FreeIds(lead[r]) # {}
               /\ store' = store \cup {NewLead(NewId(lead[r]), lead[r])}
               /\ doc' = [doc EXCEPT ![r] = NewLead(NewId(lead[r]), lead[r])]
               /\ Await(r, "c_forward")
               /\ UNCHANGED <<op, lead, fwd, saves, calls, results>>
    /\ UNCHANGED units

\* for comparison, a dispatcher that posts a second time
createLead_forwardTwice(r) ==
    /\ pc[r] = "c_forward"
    /\ calls' = [calls EXCEPT ![r] = @ + 2]
    /\ Await(r, "c_save")
    /\ UNCHANGED <<store, op, lead, doc, fwd, saves, units, results>>
\* processAndForwardLead(leadData) is called: the POST goes out
createLead_forward(r) ==
    /\ pc[r] = "c_forward"
    /\ calls' = [calls EXCEPT ![r] = @ + 1]
    /\ Await(r, "c_save")
    /\ UNCHANGED <<store, op, lead, doc, fwd, saves, units, results>>

\* apiForwardingResult = await processAndForwardLead(leadData) settles;
\* lead.status = "processed" | "failed"; lead.processingTime = ...;
\* await lead.save();
\* A save of a document that is gone throws DocumentNotFoundError into the
\* inner catch, which sets lead.status = "failed" and saves again; a deleted
\* _id never comes back, so that save throws too, into the outer catch: 500
createLead_save(r) ==
    /\ pc[r] = "c_save"
    /\ \E ext \in ExtOutcomes :
       LET result == processAndForwardLead(ext)
           s == OutcomeStatus(result) IN
       IF Stored(doc[r].id)
          THEN /\ store' = UpdateOne(doc[r].id, doc[r].status, s)
               /\ doc' = [doc EXCEPT ![r].status = s]
               /\ fwd' = [fwd EXCEPT ![r] = result]
               /\ saves' = [saves EXCEPT ![r] = Append(@, s)]
               /\ Await(r, "c_respond")
               /\ UNCHANGED <<op, lead, calls, results>>
          ELSE /\ Answer(r, [Done(r, "create", lead[r], InternalError)
                               EXCEPT !.fwd = result,
                                      !.saves = <<"throw", "throw">>])
               /\ UNCHANGED store
    /\ UNCHANGED units

\* res.status(200).send("RECEIVED")
createLead_respond(r) ==
    /\ pc[r] = "c_respond"
    /\ Answer(r, Done(r, "create", lead[r], createLead_response(fwd[r])))
    /\ UNCHANGED <<store, units>>

createLead(r) ==
    \/ \E l \in LeadIds : createLead_findOne(r, l)
    \/ createLead_insert(r)
    \/ createLead_forward(r)
    \/ createLead_save(r)
    \/ createLead_respond(r)

(* -------------------------- retryLeadForwarding ------------------------- *)

NotFailed(status) ==
    [code |-> 400, success |-> FALSE,
     message |-> "Lead is not in failed status", currentStatus |-> status]
\* for comparison, a retry that reports a failed attempt as a client error
RetryFailedBadRequest(result) ==
    [code |-> 400, success |-> FALSE,
     message |-> "Lead forwarding retry failed", error |-> result.error]
RetryFailed(result) ==
    [code |-> 500, success |-> FALSE,
     message |-> "Lead forwarding retry failed", error |-> result.error]
RetrySuccessful(d) ==
    [code |-> 200, success |-> TRUE,
     message |-> "Lead forwarding retry successful",
     data |-> [leadid |-> d.leadid, status |-> d.status]]

\* the guard of the retry: if (lead.status !== "failed") return 400;
\* for comparison, a retry without the guard
RetryAllowedAlways(status) == TRUE
RetryAllowed(status) == status = "failed"

\* const lead = await Lead.findOne({leadid}); 404 when missing, 400 when
\* its status is not "failed"
retryLeadForwarding_findOne(r, l) ==
    /\ Free(r)
    /\ LET found == findOne(l) IN
       IF found = NoDoc
          THEN Answer(r, Done(r, "retry", l, NotFound))
          ELSE IF ~RetryAllowed(found.status)
          THEN Answer(r, [Done(r, "retry", l, NotFailed(found.status))
                            EXCEPT !.doc = found])
          ELSE /\ Await(r, "r_forward")
               /\ op' = [op EXCEPT ![r] = "retry"]
               /\ lead' = [lead EXCEPT ![r] = l]
               /\ doc' = [doc EXCEPT ![r] = found]
               /\ UNCHANGED <<fwd, saves, calls, results>>
    /\ UNCHANGED <<store, units>>

\* processAndForwardLead(lead.toObject()) is called: the POST goes out
retryLeadForwarding_forward(r) ==
    /\ pc[r] = "r_forward"
    /\ calls' = [calls EXCEPT ![r] = @ + 1]
    /\ Await(r, "r_save")
    /\ UNCHANGED <<store, op, lead, doc, fwd, saves, units, results>>

\* apiForwardingResult = await processAndForwardLead(...) settles.
\* Success: lead.status = "processed"; await lead.save(); a save that throws
\* goes to the outer catch: 500.  Failure: 500 at once, nothing is written
retryLeadForwarding_save(r) ==
    /\ pc[r] = "r_save"
    /\ \E ext \in ExtOutcomes :
       LET result == processAndForwardLead(ext) IN
       IF ~result.success
          THEN /\ Answer(r, [Done(r, "retry", lead[r], RetryFailed(result))
                               EXCEPT !.fwd = result])
               /\ UNCHANGED store
          ELSE IF Stored(doc[r].id)
          THEN /\ store' = UpdateOne(doc[r].id, doc[r].status, "processed")
               /\ doc' = [doc EXCEPT ![r].status = "processed"]
               /\ fwd' = [fwd EXCEPT ![r] = result]
               /\ saves' = [saves EXCEPT ![r] = Append(@, "processed")]
               /\ Await(r, "r_respond")
               /\ UNCHANGED <<op, lead, calls, results>>
          ELSE /\ Answer(r, [Done(r, "retry", lead[r], InternalError)
                               EXCEPT !.fwd = result, !.saves = <<"throw">>])
               /\ UNCHANGED store
    /\ UNCHANGED units

\* res.status(200).json({success: true, ..., data: {leadid, status, ...}})
retryLeadForwarding_respond(r) ==
    /\ pc[r] = "r_respond"
    /\ Answer(r, Done(r, "retry", lead[r], RetrySuccessful(doc[r])))
    /\ UNCHANGED <<store, units>>

retryLeadForwarding(r) ==
    \/ \E l \in LeadIds : retryLeadForwarding_findOne(r, l)
    \/ retryLeadForwarding_forward(r)
    \/ retryLeadForwarding_save(r)
    \/ retryLeadForwarding_respond(r)

(* ---------------- updateLeadStatus, deleteLead, getLeadById ------------- *)

\* the status values a client may send in the PATCH body
StatusInputs == Statuses \cup {"bogus"}

\* ["pending", "processed", "failed"].includes(status); for comparison, a
\* handler that takes any value
ValidStatusAny(status) == TRUE
ValidStatus(status) == status \in {"pending", "processed", "failed"}

\* Lead.findOneAndUpdate({leadid}, {status}, {new: true}); for comparison,
\* an update whose filter matches every document
findOneAndUpdateAll(l, status) == {[d EXCEPT !.status = status] : d \in store}
findOneAndUpdate(l, status) ==
    {IF d.leadid = l THEN [d EXCEPT !.status = status] ELSE d : d \in store}

InvalidStatus ==
    [code |-> 400, success |-> FALSE,
     message |-> "Invalid status. Must be pending, processed, or failed"]
Found(d) == [code |-> 200, success |-> TRUE, data |-> d]
Deleted ==
    [code |-> 200, success |-> TRUE, message |-> "Lead deleted successfully"]

updateLeadStatus(r, l, status) ==
    /\ Free(r)
    /\ IF ~ValidStatus(status)
          THEN /\ Answer(r, Done(r, "patch", l, InvalidStatus))
               /\ UNCHANGED store
          ELSE IF findOne(l) = NoDoc
          THEN /\ Answer(r, Done(r, "patch", l, NotFound))
               /\ UNCHANGED store
          ELSE /\ store' = findOneAndUpdate(l, status)
               /\ Answer(r, Done(r, "patch", l,
                                 Found([findOne(l) EXCEPT !.status = status])))
    /\ UNCHANGED units

\* Lead.findOneAndDelete({leadid}): the collection without the record;
\* for comparison, a delete that leaves the collection as it is
findOneAndDeleteNothing(l) == store
findOneAndDelete(l) == store \ {findOne(l)}

deleteLead(r, l) ==
    /\ Free(r)
    /\ IF findOne(l) = NoDoc
          THEN /\ Answer(r, Done(r, "delete", l, NotFound))
               /\ UNCHANGED store
          ELSE /\ store' = findOneAndDelete(l)
               /\ Answer(r, Done(r, "delete", l, Deleted))
    /\ UNCHANGED units

\* Lead.findOne({leadid}).lean()
getLeadById(r, l) ==
    /\ Free(r)
    /\ IF findOne(l) = NoDoc
          THEN Answer(r, Done(r, "get", l, NotFound))
          ELSE Answer(r, Done(r, "get", l, Found(findOne(l))))
    /\ UNCHANGED <<store, units>>

(* --------------------------- bulkForwardLeads --------------------------- *)

\* req.body.leadIds: missing or not an array, or an array made of `ids`
\* (identifiers clients also use elsewhere) followed by `pad` identifiers
\* that no lead carries
SeqsUpTo(n) == UNION {[1..k -> LeadIds] : k \in 0..n}
BulkInputs ==
    {NoInput} \cup
    {[isArray |-> TRUE, ids |-> ids, pad |-> pad] :
        ids \in SeqsUpTo(MaxBulkLen), pad \in {0, BulkMax - 1}}

\* leadIds.length; for comparison, a length that counts only the
\* identifiers of known leads
LengthOfKnown(input) == Len(input.ids)
Length(input) == Len(input.ids) + input.pad

LeadIdsRequired ==
    [code |-> 400, success |-> FALSE,
     message |-> "leadIds array is required and must not be empty"]
TooManyLeads ==
    [code |-> 400, success |-> FALSE,
     message |-> "Maximum 100 leads can be processed at once"]
NoLeadsFound ==
    [code |-> 404, success |-> FALSE,
     message |-> "No leads found with the provided IDs"]
BulkFailed ==
    [code |-> 500, success |-> FALSE, message |-> "Internal server error",
     error |-> "No document found for query"]
BulkCompleted(res, us) ==
    [code |-> 200, success |-> TRUE,
     message |-> "Bulk lead forwarding completed",
     summary |-> res,
     details |-> [i \in DOMAIN us |-> [leadid |-> us[i].leadid,
                                       status |-> us[i].detail]]]

\* one element of `leads`, with the state of its async callback
Unit(d) ==
    [leadid |-> d.leadid, status |-> d.status, st |-> "found", detail |-> ""]

\* a bulk request is being served on another connection
BulkElsewhere(r) ==
    \E q \in Reqs \ {r} : op[q] = "bulk" \/ units[q] # NoUnits

\* input validation, then const leads = await Lead.find({leadid: {$in}})
bulkForwardLeads_find(r, input) ==
    /\ Free(r)
    /\ ~BulkElsewhere(r)
    /\ IF ~input.isArray \/ Length(input) = 0
          THEN /\ Answer(r, [Done(r, "bulk", "", LeadIdsRequired)
                               EXCEPT !.input = input])
               /\ UNCHANGED units
          ELSE IF Length(input) > BulkMax
          THEN /\ Answer(r, [Done(r, "bulk", "", TooManyLeads)
                               EXCEPT !.input = input])
               /\ UNCHANGED units
          ELSE IF find(input.ids) = {}
          THEN /\ Answer(r, [Done(r, "bulk", "", NoLeadsFound)
                               EXCEPT !.input = input])
               /\ UNCHANGED units
          ELSE LET leads == find(input.ids) IN
               /\ Await(r, "b_map")
               /\ op' = [op EXCEPT ![r] = "bulk"]
               /\ units' = [units EXCEPT ![r] =
                     [i \in {d.id : d \in leads} |-> Unit(ById(i))]]
               /\ results' = [results EXCEPT ![r] =
                     [total |-> Cardinality(leads), successful |-> 0,
                      failed |-> 0,
                      notFound |-> Length(input) - Cardinality(leads)]]
               /\ UNCHANGED <<lead, doc, fwd, saves, calls>>
    /\ UNCHANGED store

\* leads.map(async (lead) => ...): every callback runs up to its
\* await processAndForwardLead(...), so every POST is issued here
bulkForwardLeads_map(r) ==
    /\ pc[r] = "b_map"
    /\ units' = [units EXCEPT ![r] =
          [i \in DOMAIN @ |-> [@[i] EXCEPT !.st = "forward"]]]
    /\ calls' = [calls EXCEPT ![r] = Cardinality(DOMAIN units[r])]
    /\ Await(r, "b_all")
    /\ UNCHANGED <<store, op, lead, doc, fwd, saves, results>>

\* the callbacks of request r other than i are all over
OthersOver(r, i) == \A j \in DOMAIN units[r] \ {i} : ~UnitRunning(units[r][j])

\* a callback is over: results.successful++ / results.failed++ ;
\* return {leadid, status, ...}.  Once the request is answered nothing
\* reads the callbacks' results any more.
Settle(r, i, s) ==
    /\ units' = [units EXCEPT ![r] =
          IF pc[r] = "idle"
             THEN IF OthersOver(r, i) THEN NoUnits
                  ELSE [j \in DOMAIN @ \ {i} |-> @[j]]
             ELSE [@ EXCEPT ![i].st = "settled", ![i].status = s,
                            ![i].detail = IF s = "processed" THEN "success"
                                                             ELSE "failed"]]
    /\ results' = [results EXCEPT ![r] =
          IF pc[r] = "idle" THEN @
          ELSE IF s = "processed"
             THEN [@ EXCEPT !.successful = @ + 1]
             ELSE [@ EXCEPT !.failed = @ + 1]]

\* a callback's promise rejects: Promise.all rejects with the first one and
\* the outer catch answers 500; the other callbacks run on
Reject(r, i) ==
    /\ units' = [units EXCEPT ![r] =
          IF OthersOver(r, i) THEN NoUnits
          ELSE [j \in DOMAIN @ \ {i} |-> @[j]]]
    /\ IF pc[r] = "b_all"
          THEN Answer(r, Done(r, "bulk", "", BulkFailed))
          ELSE /\ sent' = NoSent
               /\ UNCHANGED <<arg, out>>
               /\ UNCHANGED <<pc, op, lead, doc, fwd, saves, calls,
                              results>>

\* one callback: await processAndForwardLead(...) settles; lead.status = ...;
\* lead.processingTime = ...; await lead.save();
\* A save of a document that is gone throws DocumentNotFoundError into the
\* callback's catch, which sets lead.status = "failed" and saves again; a
\* deleted _id never comes back, so that save throws too and the callback's
\* promise rejects
bulkForwardLeads_save(r, i) ==
    /\ i \in DOMAIN units[r]
    /\ units[r][i].st = "forward"
    /\ \E ext \in ExtOutcomes :
       LET s == OutcomeStatus(processAndForwardLead(ext)) IN
       IF Stored(i)
          THEN /\ store' = UpdateOne(i, units[r][i].status, s)
               /\ Settle(r, i, s)
               /\ sent' = NoSent
               /\ UNCHANGED <<arg, out>>
               /\ UNCHANGED <<pc, op, lead, doc, fwd, saves, calls>>
          ELSE /\ Reject(r, i)
               /\ UNCHANGED store

\* await Promise.all(processingPromises) resolves: 200 with summary, details
bulkForwardLeads_respond(r) ==
    /\ pc[r] = "b_all"
    /\ \A i \in DOMAIN units[r] : units[r][i].st = "settled"
    /\ Answer(r, Done(r, "bulk", "", BulkCompleted(results[r], units[r])))
    /\ units' = [units EXCEPT ![r] = NoUnits]
    /\ UNCHANGED store

bulkForwardLeads(r) ==
    \/ \E input \in BulkInputs : bulkForwardLeads_find(r, input)
    \/ bulkForwardLeads_map(r)
    \/ \E i \in DocIds : bulkForwardLeads_save(r, i)
    \/ bulkForwardLeads_respond(r)

(* ------------------------------ the system ------------------------------ *)

Next ==
    \E r \in Reqs :
       \/ createLead(r)
       \/ retryLeadForwarding(r)
       \/ bulkForwardLeads(r)
       \/ \E l \in LeadIds, s \in StatusInputs : updateLeadStatus(r, l, s)
       \/ \E l \in LeadIds : deleteLead(r, l)
       \/ \E l \in LeadIds : getLeadById(r, l)

Spec == Init /\ [][Next]_vars

\* Create requests only, any number of them and in any interleaving
NextCreate == \E r \in Reqs : createLead(r)

SpecCreate == Init /\ [][NextCreate]_vars

\* no request in flight works on lead l
Quiet(l) ==
    \A q \in Reqs :
       /\ lead[q] # l
       /\ \A i \in DOMAIN units[q] : units[q][i].leadid # l

\* Requests on different leads overlap freely; a request on a lead starts
\* only when no other request on that lead is in flight (a client that waits
\* for the answer before it sends the next request about the same lead)
NextIso ==
    \E r \in Reqs :
       \/ \E l \in LeadIds : Quiet(l) /\ createLead_findOne(r, l)
       \/ createLead_insert(r)
       \/ createLead_forward(r)
       \/ createLead_save(r)
       \/ createLead_respond(r)
       \/ \E l \in LeadIds : Quiet(l) /\ retryLeadForwarding_findOne(r, l)
       \/ retryLeadForwarding_forward(r)
       \/ retryLeadForwarding_save(r)
       \/ retryLeadForwarding_respond(r)
       \/ \E input \in BulkInputs :
             /\ \A l \in Range(input.ids) : Quiet(l)
             /\ bulkForwardLeads_find(r, input)
       \/ bulkForwardLeads_map(r)
       \/ \E i \in DocIds : bulkForwardLeads_save(r, i)
       \/ bulkForwardLeads_respond(r)
       \/ \E l \in LeadIds, s \in StatusInputs :
             Quiet(l) /\ updateLeadStatus(r, l, s)
       \/ \E l \in LeadIds : Quiet(l) /\ deleteLead(r, l)
       \/ \E l \in LeadIds : Quiet(l) /\ getLeadById(r, l)

SpecIso == Init /\ [][NextIso]_vars

(* ------------------------- getLeads, getLeadStats ----------------------- *)

\* The two reports read the collection and write nothing.  getLeads awaits
\* a find and a countDocuments together, getLeadStats three aggregates one
\* after the other; other requests are served in between.  Of the data
\* they answer with, only the count is kept.
Listed(total) == [code |-> 200, success |-> TRUE, total |-> total]
Stats == [code |-> 200, success |-> TRUE]

\* a read is served and the handler waits for the next one
Read(r, from, o, at) ==
    /\ IF from = "idle" THEN Free(r) ELSE pc[r] = from
    /\ Await(r, at)
    /\ op' = [op EXCEPT ![r] = o]
    /\ UNCHANGED <<store, lead, doc, fwd, saves, calls, units, results>>

getLeads(r) ==
    \/ Read(r, "idle", "list", "l_count")
    \/ /\ pc[r] = "l_count"
       /\ Answer(r, Done(r, "list", "", Listed(Cardinality(store))))
       /\ UNCHANGED <<store, units>>

getLeadStats(r) ==
    \/ Read(r, "idle", "stats", "s_city")
    \/ Read(r, "s_city", "stats", "s_category")
    \/ /\ pc[r] = "s_category"
       /\ Answer(r, Done(r, "stats", "", Stats))
       /\ UNCHANGED <<store, units>>

\* every handler of the controller
NextAll == Next \/ \E r \in Reqs : getLeads(r) \/ getLeadStats(r)

SpecAll == Init /\ [][NextAll]_vars

(* ----------------------------- getApiEndpoint --------------------------- *)

\* A string is a sequence of pieces; " " is one whitespace character and
\* every other piece is a run of non-whitespace text (or of words that only
\* occur together), so two strings are equal exactly when their sequences
\* are.  "broadcast" differs from "Broadcast" in case only.
Pieces == {" ", "Broadcast", "broadcast", "Services", "Whatsapp Business Api",
           "Whatsapp Marketing", "Bulk Whatsapp Messaging"}
Strings(n) == UNION {[1..k -> Pieces] : k \in 0..n}

API_ENDPOINTS ==
    [MARKETING_API |->
        "https://crm-leads-service.pointofconnect.com/api/leads/webapi/b49a0df6-0516-440a-a22d-c79a3dad7011",
     WHATSAPP_API |->
        "https://crm-leads-service.pointofconnect.com/api/leads/webapi/3bf6fe8f-5c5d-4182-86d2-9dfa19a62220"]

WHATSAPP_CATEGORIES ==
    { <<"Broadcast", " ", "Services">>,
      <<"Whatsapp Business Api", " ", "Services">>,
      <<"Whatsapp Marketing", " ", "Services">>,
      <<"Bulk Whatsapp Messaging", " ", "Services">> }

\* the whitespace characters (of \s and of trim) that strings here contain
WhiteSpace == {" ", "\t"}

\* for comparison, a trim that leaves the string as it is
trimNone(str) == str
\* String.prototype.trim: the string without its leading and trailing
\* whitespace
RECURSIVE trim(_)
trim(str) ==
    IF str = <<>> THEN str
    ELSE IF Head(str) \in WhiteSpace THEN trim(Tail(str))
    ELSE IF str[Len(str)] \in WhiteSpace
    THEN trim(SubSeq(str, 1, Len(str) - 1))
    ELSE str

\* a category argument: unset (undefined or null) or a string
Unset == [set |-> FALSE, text |-> <<>>]
Str(text) == [set |-> TRUE, text |-> text]
Categories == {Unset} \cup {Str(t) : t \in Strings(MaxCatLen)}

\* for comparison, a truthiness test that takes the empty string for a value
FalsyUnset(x) == ~x.set
\* !x of a value that is unset or a string
Falsy(x) == ~x.set \/ x.text = <<>>

getApiEndpoint(category) ==
    IF Falsy(category) THEN API_ENDPOINTS.MARKETING_API
    ELSE LET normalizedCategory == trim(category.text)
         IN  IF normalizedCategory \in WHATSAPP_CATEGORIES
             THEN API_ENDPOINTS.WHATSAPP_API
             ELSE API_ENDPOINTS.MARKETING_API

InitEndpoint ==
    /\ Idle
    /\ arg \in {[fn |-> "getApiEndpoint", category |-> c] : c \in Categories}
    /\ out = NoOut

getApiEndpoint_call ==
    /\ arg.fn = "getApiEndpoint"
    /\ out = NoOut
    /\ out' = [fn |-> "getApiEndpoint", url |-> getApiEndpoint(arg.category)]
    /\ UNCHANGED <<pipeline, arg>>

SpecEndpoint == InitEndpoint /\ [][getApiEndpoint_call]_vars

(* ---------------------------- transformLeadData ------------------------- *)

\* The lead data handed to the dispatcher: the validated and sanitized
\* request (createLead) or the stored record (retry, bulk).  Both schemas
\* trim every string, require name, date, time, category and city, and
\* let prefix be one of Mr, Ms, Dr or empty; an optional field is absent,
\* empty or a text.
Optional(text) == {Unset, Str(<<>>), Str(<<text>>)}
LeadData ==
    [prefix : Optional("Mr"),
     name : {Str(<<"Asha", " ", "Rao">>)},
     mobile : Optional("9876543210"),
     phone : Optional("08012345678"),
     email : Optional("asha@example.com"),
     date : {Str(<<"2024-01-15">>)},
     time : {Str(<<"10:30:00">>)},
     category : {Str(<<"Broadcast", " ", "Services">>)},
     city : {Str(<<"Pune">>)},
     area : Optional("Baner"),
     brancharea : Optional("Aundh"),
     pincode : Optional("411045")]

\* transformed[key] = value on an object literal
Put(transformed, key, value) ==
    [k \in DOMAIN transformed \cup {key} |->
        IF k = key THEN value ELSE transformed[k]]
\* copies a field to a key of the payload when the field is truthy
PutIf(transformed, key, value) ==
    IF Falsy(value) THEN transformed ELSE Put(transformed, key, value)

\* new Date(date), setHours(h, m, s), toISOString()
toISOString(date, time) == Str(date.text \o <<"T">> \o time.text)

transformLeadData(leadData) ==
    LET t0 == [k \in {} |-> Unset]
        t1 == IF ~Falsy(leadData.prefix) /\ ~Falsy(leadData.name)
              THEN Put(t0, "name",
                       Str(trim(leadData.prefix.text \o <<" ">>
                                \o leadData.name.text)))
              ELSE PutIf(t0, "name", leadData.name)
        t2 == IF ~Falsy(leadData.mobile)
              THEN Put(t1, "phone-number", leadData.mobile)
              ELSE PutIf(t1, "phone-number", leadData.phone)
        t3 == PutIf(t2, "email-address", leadData.email)
        t4 == IF ~Falsy(leadData.date) /\ ~Falsy(leadData.time)
              THEN Put(t3, "enquiry-date-time",
                       toISOString(leadData.date, leadData.time))
              ELSE IF ~Falsy(leadData.date)
              THEN Put(t3, "enquiry-date-time",
                       toISOString(leadData.date, Str(<<"00:00:00">>)))
              ELSE t3
        t5 == PutIf(t4, "category", leadData.category)
        t6 == PutIf(t5, "city", leadData.city)
        t7 == PutIf(t6, "area", leadData.area)
        t8 == PutIf(t7, "branch-area", leadData.brancharea)
    IN  PutIf(t8, "pincode", leadData.pincode)

InitTransform ==
    /\ Idle
    /\ arg \in {[fn |-> "transformLeadData", leadData |-> d] : d \in LeadData}
    /\ out = NoOut

transformLeadData_call ==
    /\ arg.fn = "transformLeadData"
    /\ out = NoOut
    /\ out' = [fn |-> "transformLeadData",
               transformed |-> transformLeadData(arg.leadData)]
    /\ UNCHANGED <<pipeline, arg>>

SpecTransform == InitTransform /\ [][transformLeadData_call]_vars

(* ------------------------------ sanitizeLead ---------------------------- *)

\* strings of characters: two kinds of whitespace and a letter
Chars == {" ", "\t", "x"}
Texts == UNION {[1..k -> Chars] : k \in 0..MaxStrLen}

\* a value that is not a string (a number, a Date)
Num(n) == [set |-> TRUE, num |-> n]
IsString(x) == x.set /\ "text" \in DOMAIN x

\* the string without its leading whitespace
RECURSIVE trimStart(_)
trimStart(str) ==
    IF str # <<>> /\ Head(str) \in WhiteSpace THEN trimStart(Tail(str))
    ELSE str

\* for comparison, replace(/\s\s/g, ' '): pairs of whitespace characters,
\* not whole runs
RECURSIVE collapsePairs(_)
collapsePairs(str) ==
    IF Len(str) < 2 THEN str
    ELSE IF str[1] \in WhiteSpace /\ str[2] \in WhiteSpace
    THEN <<" ">> \o collapsePairs(Tail(Tail(str)))
    ELSE <<Head(str)>> \o collapsePairs(Tail(str))
\* replace(/\s+/g, ' '): every run of whitespace becomes one space
RECURSIVE collapse(_)
collapse(str) ==
    IF str = <<>> THEN str
    ELSE IF Head(str) \in WhiteSpace
    THEN <<" ">> \o collapse(trimStart(str))
    ELSE <<Head(str)>> \o collapse(Tail(str))

\* the objects given to the sanitization step: string fields and fields of
\* another type
Objects ==
    [name : {Str(t) : t \in Texts},
     city : {Str(<<"x">>), Str(<<" ", "x", "\t", " ", "x", " ">>)},
     dncmobile : {Num(0), Num(1)}]

\* the loop body of sanitizeLead for one key
sanitizeValue(value) ==
    IF IsString(value) THEN Str(collapse(trim(value.text))) ELSE value
sanitizeLead(data) == [key \in DOMAIN data |-> sanitizeValue(data[key])]

InitSanitize ==
    /\ Idle
    /\ arg \in {[fn |-> "sanitizeLead", data |-> d] : d \in Objects}
    /\ out = NoOut

\* the step applied to the object
sanitizeLead_call ==
    /\ arg.fn = "sanitizeLead"
    /\ out = NoOut
    /\ out' = [fn |-> "sanitizeLead", times |-> 1,
               sanitizedData |-> sanitizeLead(arg.data)]
    /\ UNCHANGED <<pipeline, arg>>

\* the step applied to its own result
sanitizeLead_again ==
    /\ out.fn = "sanitizeLead"
    /\ out.times = 1
    /\ out' = [out EXCEPT !.times = 2,
                          !.sanitizedData = sanitizeLead(out.sanitizedData)]
    /\ UNCHANGED <<pipeline, arg>>

NextSanitize == sanitizeLead_call \/ sanitizeLead_again
SpecSanitize == InitSanitize /\ [][NextSanitize]_vars

(* --------------------------- the create routes -------------------------- *)

\* req.body (POST) or req.query (GET) of a create request, in the fields
\* that matter here: leadid and name (required strings), email (optional,
\* lower-cased by the schema) and a key the schema does not know.  The
\* other required fields are taken as present and valid.  An absent key is
\* Unset.
RawData ==
    [leadid : {Unset, Str(<<" ">>), Str(<<"L1">>), Str(<<" ", "L2", "\t">>)},
     name : {Unset, Str(<<" ", "x", "\t", " ", "x">>)},
     email : {Unset, Str(<<"A@X.IN">>)},
     extra : {Unset, Str(<<"x">>)}]

\* .lowercase() of the schema
lowercase(text) ==
    [i \in DOMAIN text |-> IF text[i] = "A@X.IN" THEN "a@x.in" ELSE text[i]]

\* Joi.string().trim() on one key, .required() or .allow(''): the converted
\* value, and whether the key is in error
JoiString(value, required) ==
    IF value = Unset THEN [error |-> required, value |-> Unset]
    ELSE LET text == trim(value.text)
         IN  [error |-> required /\ text = <<>>, value |-> Str(text)]

\* leadSchema.validate(processedData, {abortEarly: false, stripUnknown: true})
leadSchema_validate(data) ==
    LET leadid == JoiString(data.leadid, TRUE)
        name == JoiString(data.name, TRUE)
        email == JoiString(data.email, FALSE)
    IN  [error |-> {k \in {"leadid", "name"} :
                       IF k = "leadid" THEN leadid.error ELSE name.error},
         value |-> [leadid |-> leadid.value, name |-> name.value,
                    email |-> IF email.value = Unset THEN Unset
                              ELSE Str(lowercase(email.value.text)),
                    extra |-> Unset]]

ValidationFailed(errors) ==
    [code |-> 400, success |-> FALSE, message |-> "Validation failed",
     errors |-> errors]

\* for comparison, a sanitization that reads the request's own data
sanitizeLead_raw(validatedLead, raw) == raw
\* const data = req.validatedLead || (req.method === 'GET' ? req.query : req.body)
sanitizeLead_data(validatedLead, raw) ==
    IF validatedLead # Unset THEN validatedLead ELSE raw

\* router.post('/', ...) and router.get('/', ...): validateLead, sanitizeLead
\* and createLead up to its first await run without interruption; arg and
\* out keep the request and what the middleware attached to it
createRoute(r, method, data) ==
    LET validated == leadSchema_validate(data)
        sanitizedLead ==
            sanitizeLead(sanitizeLead_data(validated.value, data))
    IN  /\ arg' = [fn |-> "createRoute", method |-> method, data |-> data]
        /\ IF validated.error # {}
              THEN /\ Free(r)
                   /\ Reply(r, Done(r, "create", "",
                                    ValidationFailed(validated.error)))
                   /\ out' = [fn |-> "createRoute", validatedLead |-> Unset,
                              sanitizedLead |-> Unset]
                   /\ UNCHANGED <<store, units>>
              ELSE /\ createLead_begin(r, sanitizedLead.leadid.text[1])
                   /\ out' = [fn |-> "createRoute",
                              validatedLead |-> validated.value,
                              sanitizedLead |-> sanitizedLead]

NextRoute ==
    \E r \in Reqs :
       \/ \E method \in {"POST", "GET"}, data \in RawData :
             createRoute(r, method, data)
       \/ createLead_insert(r)
       \/ createLead_forward(r)
       \/ createLead_save(r)
       \/ createLead_respond(r)

SpecRoute == Init /\ [][NextRoute]_vars

(* ------------------- the dispatcher's result in detail ------------------ *)

\* what fetch resolves or rejects with: a response (status, statusText and
\* body text) or a network failure
Responses ==
    [kind : {"response"},
     status : {200, 201, 400, 404, 429, 500, 503},
     statusText : {"", "Bad Request", "Internal Server Error"},
     body : {"", "{\"ok\":true}", "{\"error\":\"duplicate lead\"}",
             "<html>Bad Gateway</html>"}]
      \cup {[kind |-> "rejected", message |-> "fetch failed"]}
ok(response) == response.status \in 200..299
IsJson(body) == body \in {"{\"ok\":true}", "{\"error\":\"duplicate lead\"}"}

\* sendLeadToApi: what it throws (a message, as the pieces of the template
\* literal), or "" when it returns {success: true, data, processingTime}
sendLeadToApi_error(response) ==
    IF response.kind = "rejected" THEN <<response.message>>
    ELSE IF ~ok(response)
    THEN <<"API request failed: ", ToString(response.status), " ",
           response.statusText>>
    ELSE IF ~IsJson(response.body) THEN <<"Unexpected end of JSON input">>
    ELSE <<>>

\* processAndForwardLead: the result handed to the handler
processAndForwardLead_result(leadData, response) ==
    LET error == sendLeadToApi_error(response)
    IN  IF error # <<>>
        THEN [success |-> FALSE, error |-> error,
              category |-> leadData.category]
        ELSE [success |-> TRUE, apiEndpoint |-> getApiEndpoint(leadData.category),
              category |-> leadData.category, data |-> response.body]

InitDispatch ==
    /\ Idle
    /\ arg \in {[fn |-> "processAndForwardLead",
                 leadData |-> [category |-> c], response |-> x] :
                   c \in {Str(<<"Broadcast", " ", "Services">>), Str(<<"Services">>)},
                   x \in Responses}
    /\ out = NoOut

processAndForwardLead_call ==
    /\ arg.fn = "processAndForwardLead"
    /\ out = NoOut
    /\ out' = [fn |-> "processAndForwardLead",
               result |-> processAndForwardLead_result(arg.leadData,
                                                       arg.response)]
    /\ UNCHANGED <<pipeline, arg>>

SpecDispatch == InitDispatch /\ [][processAndForwardLead_call]_vars

(* ------------------------------- the router ----------------------------- *)

\* the routes of the router mounted at /api/leads, in the order of their
\* registration: method, path pattern (its segments) and handler
router ==
    << [method |-> "POST", path |-> <<>>, handler |-> "createLead"],
       [method |-> "GET", path |-> <<>>, handler |-> "createLead"],
       [method |-> "GET", path |-> <<"list">>, handler |-> "getLeads"],
       [method |-> "GET", path |-> <<"stats">>, handler |-> "getLeadStats"],
       [method |-> "GET", path |-> <<":leadid">>, handler |-> "getLeadById"],
       [method |-> "PATCH", path |-> <<":leadid", "status">>,
        handler |-> "updateLeadStatus"],
       [method |-> "DELETE", path |-> <<":leadid">>, handler |-> "deleteLead"] >>

\* a path pattern matches a path of as many segments, a parameter matching
\* any segment
Matches(route, method, path) ==
    /\ route.method = method
    /\ Len(route.path) = Len(path)
    /\ \A i \in DOMAIN path :
          route.path[i] = ":leadid" \/ route.path[i] = path[i]

\* the handler the request reaches: that of the first matching route;
\* the application's notFound middleware when no route matches
Dispatch(method, path) ==
    LET matching == {i \in DOMAIN router : Matches(router[i], method, path)}
    IN  IF matching = {} THEN "notFound"
        ELSE router[CHOOSE i \in matching : \A j \in matching : i <= j].handler

Segments == {"list", "stats", "status", "retry", "bulk-forward", "L1", "L2"}
Paths == {<<>>} \cup {<<a>> : a \in Segments} \cup (Segments \X Segments)

InitRouter ==
    /\ Idle
    /\ arg \in {[fn |-> "router", method |-> m, path |-> p] :
                   m \in {"GET", "POST", "PATCH", "DELETE", "PUT"}, p \in Paths}
    /\ out = NoOut

router_handle ==
    /\ arg.fn = "router"
    /\ out = NoOut
    /\ out' = [fn |-> "router", handler |-> Dispatch(arg.method, arg.path)]
    /\ UNCHANGED <<pipeline, arg>>

SpecRouter == InitRouter /\ [][router_handle]_vars

(* ------------------------------ properties ------------------------------ *)

\* the last step answered a create request for lead l
CreateAnswered(l) == sent.op = "create" /\ sent.lead = l

\* ... with 200 RECEIVED
Answered200(l) == CreateAnswered(l) /\ sent.response = Received

\* C1: create requests for one leadid, however their find and insert steps
\* interleave, leave exactly one record of that leadid; the request that
\* inserted it is answered 200 RECEIVED, every other one 409; and 200 is
\* sent for a leadid at most once (never twice in a row, and never again once
\* another step has followed it).
C1_CreateUniqueness ==
    /\ [](\A l \in LeadIds : Cardinality(Docs(l)) <= 1)
    /\ [](\A l \in LeadIds :
            CreateAnswered(l) =>
               /\ Cardinality(Docs(l)) = 1
               /\ IF sent.doc # NoDoc
                     THEN sent.response = Received /\ sent.doc.id \in
                             {d.id : d \in Docs(l)}
                     ELSE sent.response.code = 409)
    /\ [][\A l \in LeadIds : Answered200(l)' => ~Answered200(l)]_vars
    /\ \A l \in LeadIds :
          [](Answered200(l) => [](~Answered200(l) => []~Answered200(l)))

\* two creates of one leadid both passed the lookup; the unique index
\* refused the second insert
C1_Witness ==
    \E l \in LeadIds :
       /\ CreateAnswered(l)
       /\ sent.response = DuplicateKeyCaught(l)
       /\ Cardinality(Docs(l)) = 1

\* the status changes of one step: <<_id, leadid, from, to>>
StatusChanges ==
    {<<d.id, d.leadid, d.status, e.status>> : d \in store, e \in store'}
       \cap {c \in DocIds \X LeadIds \X Statuses \X Statuses :
                c[3] # c[4] /\ [id |-> c[1], leadid |-> c[2], status |-> c[4]]
                                  \in store'}

\* C2 as stated: the stored status of a lead changes only along
\* pending->processed, pending->failed, failed->processed (failed->failed
\* is no change); nothing leaves processed, nothing returns to pending.
C2_OnlyForwardEdges ==
    [][\A c \in StatusChanges :
          <<c[3], c[4]>> \in {<<"pending", "processed">>,
                             <<"pending", "failed">>,
                             <<"failed", "processed">>}]_vars

\* C2, amended: a stored status changes only (a) by the status write of a
\* create request on the document it inserted, to processed or failed,
\* (b) by the status write of a retry on the document it loaded, to processed,
\* (c) by the status write of a bulk-forward callback on the document it
\* loaded, to processed or failed, whatever the status was, or (d) by an
\* accepted status update (PATCH) of that leadid, to the status it names,
\* pending included, whatever the status was.
C2_StatusWrites ==
    [][\A c \in StatusChanges :
          \/ \E r \in Reqs :
                /\ pc[r] = "c_save" /\ doc[r].id = c[1]
                /\ c[4] \in {"processed", "failed"}
          \/ \E r \in Reqs :
                /\ pc[r] = "r_save" /\ doc[r].id = c[1]
                /\ c[4] = "processed"
          \/ \E r \in Reqs :
                /\ c[1] \in DOMAIN units[r] /\ units[r][c[1]].st = "forward"
                /\ c[4] \in {"processed", "failed"}
          \/ /\ sent'.op = "patch" /\ sent'.lead = c[2]
             /\ sent'.response.code = 200
             /\ sent'.response.data.status = c[4]]_vars

\* a status update has just put back to pending a lead that a create
\* request, about to answer, has marked processed
C2_Witness ==
    /\ sent.op = "patch" /\ sent.response.code = 200
    /\ sent.response.data.status = "pending"
    /\ \E r \in Reqs :
          /\ pc[r] = "c_respond" /\ doc[r].status = "processed"
          /\ doc[r].id = sent.response.data.id
          /\ ById(doc[r].id).status = "pending"

\* the last step answered a create request that had called the forwarding
\* dispatcher
CreateForwarded == sent.op = "create" /\ sent.calls > 0

C6_DuplicateRejected ==
    [][/\ \A r \in Reqs :
             /\ (pc[r] = "idle" /\ pc'[r] = "c_insert") =>
                   Docs(lead'[r]) = {}
             /\ (pc[r] = "c_insert" /\ pc'[r] = "c_forward") =>
                   Docs(lead[r]) = {}
             /\ (pc[r] = "c_insert" /\ pc'[r] # "c_insert"
                    /\ Docs(lead[r]) # {}) =>
                   sent'.op = "create" /\ sent'.lead = lead[r]
                      /\ sent'.response.code = 409
       /\ (sent'.op = "create" /\ sent'.response.code = 409) =>
             /\ Docs(sent'.lead) # {}
             /\ store' = store
             /\ sent'.calls = 0
             /\ sent'.saves = <<>>
             /\ sent'.doc = NoDoc]_vars

\* the lookup found the lead, already processed, and answered 409
C6_Witness ==
    \E l \in LeadIds :
       /\ CreateAnswered(l)
       /\ sent.response = DuplicateFound(l)
       /\ sent.calls = 0
       /\ findOne(l).status = "processed"

\* C7 as stated: every 409 of the create path carries success: false, a
\* message and the leadid of the rejected lead.
C7_DuplicateBody ==
    (sent.op = "create" /\ sent.response.code = 409) =>
       /\ sent.response.success = FALSE
       /\ "message" \in DOMAIN sent.response
       /\ "leadid" \in DOMAIN sent.response
       /\ sent.response.leadid = sent.lead

\* C8: a retry that finds the lead with a status other than failed is
\* answered 400 with that status as currentStatus, without an outbound
\* call or a status write and with the store unchanged; and no retry gets
\* past its lookup unless the lead it found was failed.
C8_RetryNotFailed ==
    [][/\ \A r \in Reqs :
             (pc[r] = "idle" /\ pc'[r] = "r_forward") =>
                findOne(lead'[r]).status = "failed"
       /\ (sent'.op = "retry" /\ sent'.calls = 0 /\ Docs(sent'.lead) # {}
             /\ findOne(sent'.lead).status # "failed") =>
             /\ sent'.response.code = 400
             /\ sent'.response = NotFailed(findOne(sent'.lead).status)
             /\ store' = store
             /\ sent'.saves = <<>>
       /\ (sent'.op = "retry" /\ sent'.response.code = 400) =>
             /\ sent'.response.currentStatus \in {"pending", "processed"}
             /\ sent'.response.currentStatus = findOne(sent'.lead).status
             /\ store' = store
             /\ sent'.calls = 0]_vars

\* a retry of a processed lead was answered 400, currentStatus processed
C8_Witness ==
    /\ sent.op = "retry"
    /\ sent.response.code = 400
    /\ sent.response.currentStatus = "processed"
    /\ sent.calls = 0
    /\ findOne(sent.lead).status = "processed"

C10_BulkIsolation ==
    (sent.op = "bulk" /\ sent.calls > 0) =>
       /\ sent.response.code = 200
       /\ Cardinality(DOMAIN sent.response.details) = sent.calls

\* this step is the lookup step of a bulk-forward request on connection r,
\* made with leadIds = input
BulkLookup(r, input) ==
    /\ pc[r] = "idle"
    /\ (sent'.op = "bulk" /\ sent'.input = input) \/ pc'[r] = "b_map"
    /\ bulkForwardLeads_find(r, input)

\* the requested identifiers (counted with their repetitions) that no
\* stored record carries
Unknown(input) ==
    Cardinality({i \in DOMAIN input.ids : Docs(input.ids[i]) = {}}) + input.pad

\* C11 as stated: the notFound a bulk-forward request computes at its
\* lookup, and reports unchanged in the summary of its 200, is the number
\* of requested identifiers without a stored record, also when the list
\* repeats an identifier; and details has one entry per resolved record.
C11_NotFoundCount ==
    [][\A r \in Reqs :
          /\ \A input \in BulkInputs :
                (BulkLookup(r, input) /\ pc'[r] = "b_map") =>
                   results'[r].notFound = Unknown(input)
          /\ (pc[r] = "b_all" /\ pc'[r] = "b_all") =>
                results'[r].notFound = results[r].notFound
          /\ (pc[r] = "b_all" /\ sent'.op = "bulk"
                 /\ sent'.response.code = 200) =>
                /\ sent'.response.summary.notFound = results[r].notFound
                /\ Cardinality(DOMAIN sent'.response.details)
                      = sent'.response.summary.total]_vars

\* leadIds is an array of 1 to 100 items
WellSized(input) ==
    input.isArray /\ Len(input.ids) + input.pad \in 1..100

\* C12 as stated: a bulk-forward request whose leadIds is an array of 1 to
\* 100 items is not answered by anything but 200, whatever subset of the
\* identifiers is stored, none included.
C12_WellSizedIs200 ==
    [][\A r \in Reqs, input \in BulkInputs :
          (WellSized(input) /\ BulkLookup(r, input)) =>
             sent'.response.code \in {0, 200}]_vars

\* C12, amended: the lookup step of a bulk-forward request answers 400
\* exactly when leadIds is missing, not an array, empty or longer than 100;
\* for an array of 1 to 100 items it answers 404, with no outbound call
\* and the store unchanged, when none of the identifiers is stored, and
\* otherwise goes on with one unit per stored record; a request that went
\* on is answered 200 with summary and details, or 500.
C12_BulkAnswers ==
    [][(sent'.op = "bulk" \/ \E r \in Reqs : pc'[r] = "b_map") =>
       /\ \A r \in Reqs, input \in BulkInputs :
             BulkLookup(r, input) =>
                IF ~WellSized(input)
                   THEN sent'.op = "bulk" /\ sent'.response.code = 400
                        /\ store' = store /\ sent'.calls = 0
                ELSE IF \A i \in DOMAIN input.ids : Docs(input.ids[i]) = {}
                   THEN sent'.op = "bulk" /\ sent'.response.code = 404
                        /\ store' = store /\ sent'.calls = 0
                ELSE /\ sent' = NoSent /\ pc'[r] = "b_map"
                     /\ results'[r].total =
                           Cardinality({l \in LeadIds :
                              Docs(l) # {} /\ l \in Range(input.ids)})
       /\ (sent'.op = "bulk" /\ sent'.calls > 0) =>
             /\ sent'.response.code \in {200, 500}
             /\ sent'.response.code = 200 =>
                   {"summary", "details"} \subseteq DOMAIN sent'.response
       /\ (sent'.op = "bulk" /\ sent'.calls = 0) =>
             sent'.response.code \in {400, 404}]_vars

\* a list of one identifier, not stored, was answered 404
C12_Witness ==
    /\ sent.op = "bulk"
    /\ sent.response = NoLeadsFound
    /\ WellSized(sent.input)
    /\ Len(sent.input.ids) = 1 /\ sent.input.pad = 0
    /\ Docs(sent.input.ids[1]) = {}

\* C13: a status update whose status value is not pending, processed or
\* failed is answered 400 by its one step and that step leaves the store as
\* it is, the addressed lead and every other record; and every 400 of the
\* status update comes with the store unchanged.
C13_InvalidStatusRejected ==
    [][sent'.op = "patch" =>
       /\ \A r \in Reqs, l \in LeadIds, status \in StatusInputs :
             (status \notin {"pending", "processed", "failed"}
                /\ sent'.lead = l /\ updateLeadStatus(r, l, status)) =>
                /\ sent'.response.code = 400
                /\ sent'.response = InvalidStatus
                /\ store' = store
                /\ sent'.calls = 0
       /\ sent'.response.code = 400 => store' = store]_vars

\* a status update of a stored, processed lead was answered 400; the lead
\* is still processed
C13_Witness ==
    /\ sent.op = "patch"
    /\ sent.response = InvalidStatus
    /\ Docs(sent.lead) # {}
    /\ findOne(sent.lead).status = "processed"

\* C14: getApiEndpoint returns the WhatsApp endpoint exactly when the
\* category is a string that consists of one of the four allow-list names
\* with any amount of whitespace before and after it (so that it equals the
\* name once trimmed), and the Marketing endpoint for every other category:
\* unset, empty, different in case, a part of a name or a name with more
\* text around it.
Spaces(n) == [i \in 1..n |-> " "]
Padded(name) ==
    {Spaces(i) \o name \o Spaces(j) : i \in 0..MaxCatLen, j \in 0..MaxCatLen}
C14_EndpointByAllowList ==
    out.fn = "getApiEndpoint" =>
        /\ out.url \in {API_ENDPOINTS.WHATSAPP_API, API_ENDPOINTS.MARKETING_API}
        /\ out.url = API_ENDPOINTS.WHATSAPP_API <=>
              /\ arg.category.set
              /\ \E name \in WHATSAPP_CATEGORIES :
                    arg.category.text \in Padded(name)
        /\ arg.category \in
              {Unset, Str(<<>>), Str(<<"broadcast", " ", "Services">>),
               Str(<<"Broadcast">>), Str(<<"Broadcast", " ">>),
               Str(<<"Broadcast", " ", " ", "Services">>),
               Str(<<"Broadcast", " ", "Services", " ", "Services">>)}
              => out.url = API_ENDPOINTS.MARKETING_API
C14_Witness ==
    /\ out.fn = "getApiEndpoint"
    /\ arg.category = Str(<<" ", "Whatsapp Marketing", " ", "Services", " ">>)
    /\ out.url = API_ENDPOINTS.WHATSAPP_API

\* C15: in the payload of transformLeadData, phone-number is the mobile
\* when the mobile is non-empty, the phone when the mobile is absent or
\* empty and the phone is non-empty, and is no key of the payload when both
\* are absent or empty; and every key of the payload has a value that is
\* neither unset nor empty.
Empty(x) == x = Unset \/ x = Str(<<>>)
C15_PhoneNumberAndNoEmptyKeys ==
    out.fn = "transformLeadData" =>
        LET leadData == arg.leadData
            transformed == out.transformed
        IN  /\ ~Empty(leadData.mobile) =>
                  /\ "phone-number" \in DOMAIN transformed
                  /\ transformed["phone-number"] = leadData.mobile
            /\ (Empty(leadData.mobile) /\ ~Empty(leadData.phone)) =>
                  /\ "phone-number" \in DOMAIN transformed
                  /\ transformed["phone-number"] = leadData.phone
            /\ (Empty(leadData.mobile) /\ Empty(leadData.phone)) =>
                  "phone-number" \notin DOMAIN transformed
            /\ \A key \in DOMAIN transformed : ~Empty(transformed[key])
C15_Witness ==
    /\ out.fn = "transformLeadData"
    /\ arg.leadData.mobile = Str(<<>>)
    /\ arg.leadData.phone = Str(<<"08012345678">>)
    /\ arg.leadData.email = Str(<<>>)
    /\ out.transformed["phone-number"] = Str(<<"08012345678">>)
    /\ "email-address" \notin DOMAIN out.transformed

\* C16: sanitization is idempotent: the second application of the step
\* leaves the object as the first one made it; the first application makes
\* every string field free of leading and trailing whitespace and of any
\* whitespace other than single spaces between other characters, and
\* passes the other fields through.
Clean(text) ==
    /\ text # <<>> => (text[1] \notin WhiteSpace /\ text[Len(text)] \notin WhiteSpace)
    /\ \A i \in DOMAIN text : text[i] \in WhiteSpace =>
          (text[i] = " " /\ text[i + 1] \notin WhiteSpace)
C16_SanitizeIdempotent ==
    [][(out.fn = "sanitizeLead" /\ out'.fn = "sanitizeLead") =>
          /\ out'.sanitizedData = out.sanitizedData
          /\ \A key \in DOMAIN arg.data :
                IF IsString(arg.data[key])
                THEN Clean(out.sanitizedData[key].text)
                ELSE out.sanitizedData[key] = arg.data[key]]_vars
C16_Witness ==
    /\ out.fn = "sanitizeLead"
    /\ out.times = 2
    /\ arg.data.name = Str(<<" ", "x", "\t", "x">>)
    /\ out.sanitizedData.name = Str(<<"x", " ", "x">>)

\* C17: on both create routes the handler's work starts only after a
\* successful validation: a request whose leadid or name is missing or
\* blank is answered 400 "Validation failed" with no record inserted, no
\* outbound call and no sanitization; for any other request the sanitized
\* object is made from the validated one (trimmed, e-mail in lower case,
\* unknown keys dropped), and the lookup is by its leadid; and a record is
\* inserted or an outbound call made only by a request that went through
\* such a step.
Blank(x) == x = Unset \/ \A i \in DOMAIN x.text : x.text[i] \in WhiteSpace
C17_ValidationFirst ==
    [][\A r \in Reqs :
          /\ (pc[r] = "idle" /\ \E method \in {"POST", "GET"} :
                                    createRoute(r, method, arg'.data)) =>
                IF Blank(arg'.data.leadid) \/ Blank(arg'.data.name)
                THEN /\ sent'.op = "create"
                     /\ sent'.response.code = 400
                     /\ sent'.response.message = "Validation failed"
                     /\ sent'.calls = 0
                     /\ store' = store
                     /\ pc'[r] = "idle"
                     /\ out'.sanitizedLead = Unset
                ELSE /\ out'.validatedLead.extra = Unset
                     /\ out'.sanitizedLead.extra = Unset
                     /\ out'.sanitizedLead.email \in {Unset, Str(<<"a@x.in">>)}
                     /\ out'.sanitizedLead.name = Str(<<"x", " ", "x">>)
                     /\ out'.sanitizedLead = sanitizeLead(out'.validatedLead)
                     /\ \/ pc'[r] = "c_insert" /\ sent' = NoSent
                           /\ <<lead'[r]>> = trim(arg'.data.leadid.text)
                        \/ pc'[r] = "idle" /\ sent'.response.code = 409
                           /\ <<sent'.lead>> = trim(arg'.data.leadid.text)
                     /\ store' = store
          /\ (pc[r] = "idle" /\ pc'[r] # "idle") =>
                /\ pc'[r] = "c_insert"
                /\ out'.sanitizedLead # Unset
                /\ <<lead'[r]>> = out'.sanitizedLead.leadid.text
          /\ (store' # store \/ calls'[r] > calls[r]) =>
                pc[r] # "idle" \/ pc'[r] = pc[r]]_vars
C17_Witness ==
    /\ arg.fn = "createRoute"
    /\ arg.method = "GET"
    /\ arg.data.leadid = Str(<<" ">>)
    /\ arg.data.name = Str(<<" ", "x", "\t", " ", "x">>)
    /\ sent.op = "create"
    /\ sent.response = ValidationFailed({"leadid"})
    /\ store # {}

\* C18: when the external endpoint answers with a non-2xx status, the
\* result of processAndForwardLead is a failure that carries the status
\* code of the response and the body text of the response (in its message
\* or in a field of its own).
Carries(result, x) ==
    \/ x \in Range(result.error)
    \/ \E k \in DOMAIN result \ {"success", "error", "category"} :
          result[k] = x
C18_FailureCarriesStatusAndBody ==
    (/\ out.fn = "processAndForwardLead"
     /\ arg.response.kind = "response"
     /\ arg.response.status \notin 200..299) =>
        /\ out.result.success = FALSE
        /\ Carries(out.result, ToString(arg.response.status))
        /\ Carries(out.result, arg.response.body)

\* C19: the HTTP surface has the routes POST /api/leads/:leadid/retry and
\* POST /api/leads/bulk-forward: a POST to <leadid>/retry reaches
\* retryLeadForwarding and a POST to bulk-forward reaches bulkForwardLeads.
C19_RetryAndBulkRoutes ==
    (out.fn = "router" /\ arg.method = "POST") =>
        /\ (Len(arg.path) = 2 /\ arg.path[2] = "retry") =>
              out.handler = "retryLeadForwarding"
        /\ arg.path = <<"bulk-forward">> => out.handler = "bulkForwardLeads"

\* C20: a stored lead is removed only by a DELETE on its leadid.  A step
\* that takes a record out of the collection is a DELETE answered 200 for
\* the leadid of that record; a DELETE on a stored leadid answers 200 and
\* leaves no record of that leadid and every other record as it was; a
\* DELETE on an unknown leadid answers 404 and changes nothing; and right
\* after a DELETE answered 200, a GET of that leadid answers 404 and a
\* create of it passes the duplicate check and inserts the record.
Ids(docs) == {d.id : d \in docs}
C20_RemovedOnlyByDelete ==
    [][/\ Ids(store) \ Ids(store') # {} =>
             /\ sent'.op = "delete"
             /\ sent'.response = Deleted
             /\ \A d \in store : d.id \notin Ids(store') => d.leadid = sent'.lead
       /\ sent'.op = "delete" =>
             \A r \in Reqs :
                (pc[r] = "idle" /\ deleteLead(r, sent'.lead)) =>
                   IF Docs(sent'.lead) # {}
                   THEN /\ sent'.response.code = 200
                        /\ {d \in store' : d.leadid = sent'.lead} = {}
                        /\ {d \in store : d.leadid # sent'.lead} = store'
                   ELSE /\ sent'.response = NotFound
                        /\ store' = store
       /\ (sent.op = "delete" /\ sent.response.code = 200) =>
             \A r \in Reqs :
                /\ (sent'.op = "get" /\ sent'.lead = sent.lead
                    /\ pc[r] = "idle" /\ getLeadById(r, sent.lead))
                      => sent'.response = NotFound
                /\ (pc[r] = "idle" /\ createLead_findOne(r, sent.lead))
                      => (pc'[r] = "c_insert" /\ lead'[r] = sent.lead)
       /\ \A r \in Reqs :
             (pc[r] = "c_insert" /\ Docs(lead[r]) = {} /\ createLead_insert(r))
                => /\ pc'[r] = "c_forward"
                   /\ \E d \in store' : d.leadid = lead[r] /\ d.status = "pending"
      ]_vars
C20_Witness ==
    /\ sent.op = "delete"
    /\ sent.response = Deleted
    /\ Docs(sent.lead) = {}
    /\ store # {}

\* C21: the reports (list, stats, get by id), at every step of theirs, and
\* every request answered with a 4xx status leave the collection as it is,
\* and such a request has made no outbound call; a stored record changes
\* only in the status write of a forwarding outcome or in a status update
\* answered 200, which changes the record of the leadid it names only.
C21_ReadsAnd4xxChangeNothing ==
    [][/\ (sent'.op \in {"get", "list", "stats"}
           \/ \E r \in Reqs : pc'[r] \in {"l_count", "s_city", "s_category"}
                              /\ pc'[r] # pc[r]) =>
             (store' = store /\ sent'.calls = 0 /\ calls' = calls)
       /\ sent'.response.code \in 400..499 =>
             (store' = store /\ sent'.calls = 0)
       /\ \A c \in StatusChanges :
             \/ \E r \in Reqs : pc[r] \in {"c_save", "r_save"} /\ doc[r].id = c[1]
             \/ \E r \in Reqs : c[1] \in DOMAIN units[r]
                                /\ units[r][c[1]].st = "forward"
             \/ sent'.op = "patch" /\ sent'.response.code = 200
                /\ sent'.lead = c[2]]_vars
\* a retry of a lead that is not failed has been refused, and a report is
\* between two of its reads
C21_Witness ==
    /\ sent.op = "retry"
    /\ sent.response.code = 400
    /\ Docs(sent.lead) # {}
    /\ \E r \in Reqs : pc[r] = "s_category"

\* C22: when a bulk-forward request that dispatched units is answered, every
\* unit of the request is over: none is still waiting for its POST or has
\* its status write still to come.
C22_BulkAnswersAfterAllUnits ==
    (sent.op = "bulk" /\ sent.calls > 0) =>
       \A r \in Reqs : \A i \in DOMAIN units[r] : ~UnitRunning(units[r][i])

\* C23: a request issues one POST for each invocation of the dispatcher and
\* invokes it once per lead: a create or a retry goes from no POST to one,
\* at its forward step, a bulk request from none to one per resolved
\* record, at its dispatch; no request issues a POST after that, whatever
\* the outcome was, so that a create or a retry is answered with one POST
\* at most; another attempt takes another request.
C23_OnePostPerInvocation ==
    [][\A r \in Reqs :
          /\ calls'[r] > calls[r] =>
                /\ calls[r] = 0
                /\ \/ pc[r] \in {"c_forward", "r_forward"} /\ calls'[r] = 1
                   \/ pc[r] = "b_map"
                      /\ calls'[r] = Cardinality(DOMAIN units[r])
                      /\ \A i, j \in DOMAIN units[r] :
                            units[r][i].leadid = units[r][j].leadid => i = j
          /\ (pc[r] \in {"c_save", "r_save"} /\ pc'[r] # pc[r]) =>
                /\ calls[r] = 1
                /\ pc'[r] \in {"c_respond", "r_respond", "idle"}
                /\ pc'[r] # "idle" => calls'[r] = 1
          /\ sent'.op \in {"create", "retry"} => sent'.calls <= 1]_vars
\* a create whose only POST failed has been answered
C23_Witness ==
    /\ sent.op = "create"
    /\ sent.calls = 1
    /\ ~sent.fwd.success
    /\ sent.saves = <<"failed">>
    /\ sent.response = Received

\* C24: a retry's status check and its dispatch act as one with respect to
\* the other requests on the lead: when the POST of a retry goes out, the
\* stored status of the lead is not processed.
C24_RetryDispatchSeesFailed ==
    [][\A r \in Reqs :
          (pc[r] = "r_forward" /\ calls'[r] > calls[r]) =>
             \A d \in store : d.id = doc[r].id => d.status # "processed"]_vars

\* C25: a lead deleted while its forwarding is in flight stays deleted, and
\* the request in flight answers as it would have without the delete: a
\* record enters the collection only at the insert of a create, a create
\* that has forwarded answers 200 RECEIVED, and a retry that has forwarded
\* answers 200 or 500 as its attempt succeeded or failed.
C25_DeleteInFlight ==
    [][/\ Ids(store') \ Ids(store) # {} => \E r \in Reqs : pc[r] = "c_insert"
       /\ (sent'.op = "create" /\ sent'.calls = 1) => sent'.response = Received
       /\ (sent'.op = "retry" /\ sent'.calls = 1) =>
             sent'.response.code = IF sent'.fwd.success THEN 200 ELSE 500
             /\ (sent'.fwd.success => "data" \in DOMAIN sent'.response)]_vars

\* C26: whenever bulk-forward answers 200, successful + failed = total =
\* the number of details, successful and failed being the numbers of
\* details with status success and failed; and a unit's detail is success
\* exactly when the request wrote processed to the record (failed when it
\* wrote failed): right after the unit's save the record has the status
\* the detail reports.
C26_BulkSummaryAndWrites ==
    [][/\ (sent'.op = "bulk" /\ sent'.response.code = 200) =>
             LET summary == sent'.response.summary
                 details == sent'.response.details
                 With(status) ==
                     Cardinality({i \in DOMAIN details :
                                     details[i].status = status})
             IN  /\ summary.successful + summary.failed = summary.total
                 /\ summary.total = Cardinality(DOMAIN details)
                 /\ summary.successful = With("success")
                 /\ summary.failed = With("failed")
       /\ \A r \in Reqs : \A i \in DOMAIN units[r] :
             (/\ pc[r] = "b_all" /\ units[r][i].st = "forward"
              /\ i \in DOMAIN units'[r] /\ units'[r][i].st = "settled") =>
                /\ units'[r][i].detail \in {"success", "failed"}
                /\ \E d \in store' :
                      /\ d.id = i
                      /\ d.status = IF units'[r][i].detail = "success"
                                    THEN "processed" ELSE "failed"]_vars

\* C27: every leadid that validation accepts is retrievable: a GET of
\* /api/leads/<leadid> is handled by getLeadById, no other route taking
\* the request first.
C27_LeadIdReachesGetLeadById ==
    (/\ out.fn = "router"
     /\ arg.method = "GET"
     /\ Len(arg.path) = 1
     /\ ~JoiString(Str(arg.path), TRUE).error) =>
        out.handler = "getLeadById"

=============================================================================
